---------------------------- MODULE Spec2Model ----------------------------
(***************************************************************************)
(* Verification model of the two geometric engines of the repository:      *)
(*   - the cell-list neighbour index (src/src/nb.c),                       *)
(*   - the Lee & Richards slice integrator (src/src/sasa_lr.c).            *)
(*                                                                         *)
(* Numbers.  The C code computes in doubles.  The model computes exactly   *)
(* on integer grids:                                                       *)
(*   - lengths (coordinates, radii, delta) are integers; the slice         *)
(*     position z is carried doubled (z2 = 2*z) so that delta/2 is exact;  *)
(*   - angles are integers in units of pi/PI, all inputs even, so the      *)
(*     midpoint (inf+sup)/2 of sasa_sum_angles is exact;                   *)
(*   - the IEEE value NaN is the model value NaN, with IEEE comparison     *)
(*     (every ordered comparison with NaN is false).                       *)
(* Atoms are numbered 1..N in the model (0..N-1 in C); cells are numbered  *)
(* 0..n-1 as in C.                                                         *)
(***************************************************************************)
EXTENDS Integers, Sequences, FiniteSets, TLC

VARIABLES
    nb_pc,      \* position inside freesasa_nb_new
    nb_coord,   \* freesasa_coord: sequence of <<x, y, z>>
    nb_radii,   \* radii argument of freesasa_nb_new
    nb_cl,      \* the cell_list built by cell_list_new
    nb_adj,     \* the freesasa_nb under construction
    nb_ic,      \* loop variable ic of nb_fill_list
    build,      \* "assert" (assertions compiled in), "ndebug", or "any" (not yet observed)
    sa_pc,      \* position inside sasa_sum_angles
    sa_in_a,    \* the half-widths the outermost call received
    sa_in_b,    \* the centres the outermost call received
    sa_a,       \* argument a of the current (recursive) call
    sa_b,       \* argument b of the current (recursive) call
    sa_depth,   \* recursion depth of the current call
    sa_early,   \* whether the call returned through "if (a[i] > PI) return 0"
    sa_ret,     \* the value returned by the outermost call
    lr_pc,      \* position of the main thread inside sasalib_lee_richards
    lr_xyz,     \* argument xyz: sequence of <<x, y, z>>
    lr_atom_radii,  \* argument atom_radii
    lr_probe,   \* argument probe_radius
    lr_delta,   \* argument delta
    lr_n_threads,   \* argument n_threads
    lr_sasa,    \* the caller's array sasa, in units of (1/2) * (pi/PI) * length^2
    lr,         \* the sasa_lr_t built by sasalib_lee_richards (without .sasa)
    lr_status,  \* return_value
    lr_z2,      \* 2*z of the serial slice loop
    lr_exposed, \* exposed_arc[] of the last slice of the serial loop
    lr_loc,     \* locals n_slices, n_perthread of sasa_lr_do_threads
    lr_t,       \* loop variable t of sasa_lr_do_threads (1..T here, 0..T-1 in C)
    lr_thr,     \* per worker: lrt[t] (min_z, max_z), t_sasa[t], its z and state
    lr_slices,  \* history: the set of <<t, 2*z>> that have been integrated
    lr_iter     \* history: the number of calls of sasa_add_slice_area

nbVars == <<nb_pc, nb_coord, nb_radii, nb_cl, nb_adj, nb_ic>>

saVars == <<sa_pc, sa_in_a, sa_in_b, sa_a, sa_b, sa_depth, sa_early, sa_ret>>

lrVars == <<lr_pc, lr_xyz, lr_atom_radii, lr_probe, lr_delta, lr_n_threads, lr_sasa,
            lr, lr_status, lr_z2, lr_exposed, lr_loc, lr_t, lr_thr, lr_slices, lr_iter>>

vars == <<nb_pc, nb_coord, nb_radii, nb_cl, nb_adj, nb_ic, build,
          sa_pc, sa_in_a, sa_in_b, sa_a, sa_b, sa_depth, sa_early, sa_ret,
          lr_pc, lr_xyz, lr_atom_radii, lr_probe, lr_delta, lr_n_threads, lr_sasa,
          lr, lr_status, lr_z2, lr_exposed, lr_loc, lr_t, lr_thr, lr_slices, lr_iter>>

\* the state of a part of the program that is not running
NbIdle ==
    /\ nb_pc = "idle" /\ nb_coord = << >> /\ nb_radii = << >>
    /\ nb_cl = [n |-> 0] /\ nb_ic = 0
    /\ nb_adj = [nb |-> << >>, nb_xd |-> << >>, nb_yd |-> << >>]

SaIdle ==
    /\ sa_pc = "idle" /\ sa_in_a = << >> /\ sa_in_b = << >> /\ sa_a = << >>
    /\ sa_b = << >> /\ sa_depth = 0 /\ sa_early = FALSE /\ sa_ret = 0

LrIdle ==
    /\ lr_pc = "idle" /\ lr_xyz = << >> /\ lr_atom_radii = << >> /\ lr_probe = 0
    /\ lr_delta = 0 /\ lr_n_threads = 0 /\ lr_sasa = << >> /\ lr = [n_atoms |-> 0]
    /\ lr_status = "SUCCESS" /\ lr_z2 = 0 /\ lr_exposed = << >>
    /\ lr_loc = [n_slices |-> 0, n_perthread |-> 0]
    /\ lr_t = 0 /\ lr_thr = << >> /\ lr_slices = {} /\ lr_iter = 0

(***************************************************************************)
(* Bounds of the model                                                     *)
(***************************************************************************)
MaxNbAtoms == 3
MaxNbCoord == 2
MaxNbRadius == 1
MaxIntervals == 3
MaxDegenerate == 2

(***************************************************************************)
(* Doubles                                                                 *)
(***************************************************************************)
\* #define PI: one angle unit of the model is pi/48
PI == 48

\* the IEEE NaN: a value outside the range of every number of the model
NaN == 0 - (PI * PI * PI)

IsNaN(x) == x = NaN
FAdd(x, y) == IF IsNaN(x) \/ IsNaN(y) THEN NaN ELSE x + y
FSub(x, y) == IF IsNaN(x) \/ IsNaN(y) THEN NaN ELSE x - y
FMul(x, y) == IF IsNaN(x) \/ IsNaN(y) THEN NaN ELSE x * y
\* x/2.0: exact, since the model keeps inf + sup and sup - inf even
FHalf(x) == IF IsNaN(x) THEN NaN ELSE x \div 2
FAbs(x) == IF IsNaN(x) THEN NaN ELSE IF x < 0 THEN 0 - x ELSE x
\* ordered comparisons are false when an operand is NaN
FLt(x, y) == (~ IsNaN(x)) /\ (~ IsNaN(y)) /\ x < y
FGt(x, y) == (~ IsNaN(x)) /\ (~ IsNaN(y)) /\ x > y

(***************************************************************************)
(* Arithmetic helpers                                                      *)
(***************************************************************************)
Min2(a, b) == IF a < b THEN a ELSE b
Max2(a, b) == IF a > b THEN a ELSE b
Abs(a) == IF a < 0 THEN 0 - a ELSE a

\* ceil(p/q) for q > 0, as ceil() of the double quotient
CeilDiv(p, q) == IF p >= 0 THEN (p + q - 1) \div q ELSE 0 - ((0 - p) \div q)

\* (int)(p/q) for q > 0: C truncation toward zero
TruncDiv(p, q) == IF p >= 0 THEN p \div q ELSE 0 - ((0 - p) \div q)

SeqMin(s) == CHOOSE m \in {s[i] : i \in 1..Len(s)} : \A i \in 1..Len(s) : m <= s[i]
SeqMax(s) == CHOOSE m \in {s[i] : i \in 1..Len(s)} : \A i \in 1..Len(s) : m >= s[i]

(***************************************************************************)
(* nb.c: the cell list                                                     *)
(***************************************************************************)

\* max_array: starts from 0, fmax over the array
max_array(a) == Max2(0, SeqMax(a))

\* cell_list_bounds: the bounds and the number of cells along each axis
cell_list_bounds(d, coord) ==
    LET xs == [i \in 1..Len(coord) |-> coord[i][1]]
        ys == [i \in 1..Len(coord) |-> coord[i][2]]
        zs == [i \in 1..Len(coord) |-> coord[i][3]]
        \* d = 2*max_array(radii), so d/2 is an integer
        x_min == SeqMin(xs) - d \div 2
        x_max == SeqMax(xs) + d \div 2
        y_min == SeqMin(ys) - d \div 2
        y_max == SeqMax(ys) + d \div 2
        z_min == SeqMin(zs) - d \div 2
        z_max == SeqMax(zs) + d \div 2
        nx == CeilDiv(x_max - x_min, d)
        ny == CeilDiv(y_max - y_min, d)
        nz == CeilDiv(z_max - z_min, d)
    IN  [d |-> d, x_min |-> x_min, x_max |-> x_max,
         y_min |-> y_min, y_max |-> y_max, z_min |-> z_min, z_max |-> z_max,
         nx |-> nx, ny |-> ny, nz |-> nz, n |-> nx * ny * nz]

\* cell_index
cell_index(c, ix, iy, iz) == ix + c.nx * (iy + c.ny * iz)

\* coord2cell_index
coord2cell_index(c, xyz) ==
    cell_index(c, TruncDiv(xyz[1] - c.x_min, c.d),
                  TruncDiv(xyz[2] - c.y_min, c.d),
                  TruncDiv(xyz[3] - c.z_min, c.d))

\* fill_cells: the atoms of each cell, in increasing atom order
fill_cells(c, coord) ==
    [ci \in 0..(c.n - 1) |->
        SelectSeq([i \in 1..Len(coord) |-> i],
                  LAMBDA i : coord2cell_index(c, coord[i]) = ci)]

\* the forward predicate of fill_nb
ForwardStrict(di, dj, dk) == di + dj + dk > 0
Forward(di, dj, dk) == di + dj + dk >= 0

\* fill_nb: the forward neighbours of cell (ix,iy,iz), in loop order i, j, k
fill_nb(c, ix, iy, iz) ==
    LET xmin == IF ix > 0 THEN ix - 1 ELSE 0
        xmax == IF ix < c.nx - 1 THEN ix + 1 ELSE ix
        ymin == IF iy > 0 THEN iy - 1 ELSE 0
        ymax == IF iy < c.ny - 1 THEN iy + 1 ELSE iy
        zmin == IF iz > 0 THEN iz - 1 ELSE 0
        zmax == IF iz < c.nz - 1 THEN iz + 1 ELSE iz
        ny_r == ymax - ymin + 1
        nz_r == zmax - zmin + 1
        cnt  == (xmax - xmin + 1) * ny_r * nz_r
        trip == [t \in 1..cnt |->
                    << xmin + (t - 1) \div (ny_r * nz_r),
                       ymin + (((t - 1) \div nz_r) % ny_r),
                       zmin + ((t - 1) % nz_r) >>]
        fwd  == SelectSeq(trip, LAMBDA p : Forward(p[1] - ix, p[2] - iy, p[3] - iz))
    IN  [n \in 1..Len(fwd) |-> cell_index(c, fwd[n][1], fwd[n][2], fwd[n][3])]

\* get_nb: fill_nb for every cell
get_nb(c) ==
    [ci \in 0..(c.n - 1) |->
        fill_nb(c, ci % c.nx, (ci \div c.nx) % c.ny, ci \div (c.nx * c.ny))]

\* cell_list_new
cell_list_new(cell_size, coord) ==
    LET c == cell_list_bounds(cell_size, coord)
    IN  c @@ [atom |-> fill_cells(c, coord), nb |-> get_nb(c)]

(***************************************************************************)
(* nb.c: the neighbour list                                                *)
(***************************************************************************)

\* freesasa_nb_alloc: nn[i] = 0 and empty arrays for every atom
\* (nn[i] is Len(nb[i]); the capacity bookkeeping of chunk_up holds no
\* information once memory is unbounded and is left out)
freesasa_nb_alloc(n) ==
    [nb |-> [i \in 1..n |-> << >>],
     nb_xd |-> [i \in 1..n |-> << >>],
     nb_yd |-> [i \in 1..n |-> << >>]]

\* nb_add_pair: appends j to nb[i] and i to nb[j], with dx, dy and -dx, -dy
nb_add_pair(adj, i, j, dx, dy) ==
    [nb    |-> [adj.nb EXCEPT ![i] = Append(@, j), ![j] = Append(@, i)],
     nb_xd |-> [adj.nb_xd EXCEPT ![i] = Append(@, dx), ![j] = Append(@, 0 - dx)],
     nb_yd |-> [adj.nb_yd EXCEPT ![i] = Append(@, dy), ![j] = Append(@, 0 - dy)]]

\* the contact test shared by nb_calc_cell_pair and sasa_get_contacts:
\* the per-axis prune, then the squared 3-D distance against cut2
InContact(vi, vj, ri, rj) ==
    LET cut2 == (ri + rj) * (ri + rj)
        dx == vj[1] - vi[1]
        dy == vj[2] - vi[2]
        dz == vj[3] - vi[3]
    IN  /\ ~ (dx * dx > cut2 \/ dy * dy > cut2 \/ dz * dz > cut2)
        /\ dx * dx + dy * dy + dz * dz < cut2

\* the candidate pairs (ia, ja) of nb_calc_cell_pair, in loop order:
\* j starts at i+1 when ci == cj, at 0 otherwise
CellPairCandidates(ai, aj, same) ==
    LET ni == Len(ai)
        nj == Len(aj)
        all == [t \in 1..(ni * nj) |-> << ((t - 1) \div nj) + 1, ((t - 1) % nj) + 1 >>]
        kept == SelectSeq(all, LAMBDA p : (~ same) \/ p[2] > p[1])
    IN  [t \in 1..Len(kept) |-> << ai[kept[t][1]], aj[kept[t][2]] >>]

RECURSIVE AddPairs(_, _, _, _)
AddPairs(adj, coord, radii, pairs) ==
    IF pairs = << >> THEN adj
    ELSE LET ia == Head(pairs)[1]
             ja == Head(pairs)[2]
             nxt == IF InContact(coord[ia], coord[ja], radii[ia], radii[ja])
                    THEN nb_add_pair(adj, ia, ja,
                                     coord[ja][1] - coord[ia][1],
                                     coord[ja][2] - coord[ia][2])
                    ELSE adj
         IN  AddPairs(nxt, coord, radii, Tail(pairs))

\* nb_calc_cell_pair(adj, coord, radii, ci, cj), cells given by index
nb_calc_cell_pair(adj, coord, radii, c, ci, cj) ==
    AddPairs(adj, coord, radii,
             CellPairCandidates(c.atom[ci], c.atom[cj], ci = cj))

\* the inner loop of nb_fill_list for one cell ic: jc = 0 .. n_nb-1
RECURSIVE nb_fill_cell(_, _, _, _, _, _)
nb_fill_cell(adj, coord, radii, c, ic, jc) ==
    IF jc > Len(c.nb[ic]) THEN adj
    ELSE nb_fill_cell(nb_calc_cell_pair(adj, coord, radii, c, ic, c.nb[ic][jc]),
                      coord, radii, c, ic, jc + 1)

\* freesasa_nb_contact: linear scan of nb[i]
freesasa_nb_contact(adj, i, j) ==
    IF \E k \in 1..Len(adj.nb[i]) : adj.nb[i][k] = j THEN 1 ELSE 0

(***************************************************************************)
(* sasa_lr.c: brute-force contacts                                         *)
(***************************************************************************)

\* the pairs (i, j), i < j, of sasa_get_contacts in loop order
AllPairs(n) ==
    LET all == [t \in 1..(n * n) |-> << ((t - 1) \div n) + 1, ((t - 1) % n) + 1 >>]
    IN  SelectSeq(all, LAMBDA p : p[2] > p[1])

RECURSIVE ContactPairs(_, _, _, _)
ContactPairs(nb, coord, radii, pairs) ==
    IF pairs = << >> THEN nb
    ELSE LET i == Head(pairs)[1]
             j == Head(pairs)[2]
             nxt == IF InContact(coord[i], coord[j], radii[i], radii[j])
                    THEN [nb EXCEPT ![i] = Append(@, j), ![j] = Append(@, i)]
                    ELSE nb
         IN  ContactPairs(nxt, coord, radii, Tail(pairs))

\* sasa_get_contacts: nb[i] for every atom (nn[i] is Len(nb[i]))
sasa_get_contacts(coord, radii) ==
    ContactPairs([i \in 1..Len(coord) |-> << >>], coord, radii, AllPairs(Len(coord)))

(***************************************************************************)
(* Specification SpecNb: freesasa_nb_new on every bounded input            *)
(***************************************************************************)
NoCellList == [n |-> 0]

NbPoints == (0..MaxNbCoord) \X (0..MaxNbCoord) \X (0..MaxNbCoord)

InitNb ==
    /\ nb_pc = "new"
    /\ \E n \in 1..MaxNbAtoms :
          /\ nb_coord \in [1..n -> NbPoints]
          /\ nb_radii \in [1..n -> 0..MaxNbRadius]
    \* max_array "assumes max value in a is positive"
    /\ \E i \in 1..Len(nb_radii) : nb_radii[i] > 0
    /\ nb_cl = NoCellList
    /\ nb_adj = freesasa_nb_alloc(0)
    /\ nb_ic = 0
    /\ build = "any"
    /\ SaIdle
    /\ LrIdle

\* freesasa_nb_new up to the call of nb_fill_list
NbCellListNew ==
    /\ nb_pc = "new"
    /\ nb_adj' = freesasa_nb_alloc(Len(nb_coord))
    /\ nb_cl' = cell_list_new(2 * max_array(nb_radii), nb_coord)
    /\ nb_ic' = 0
    /\ nb_pc' = "fill"
    /\ UNCHANGED <<nb_coord, nb_radii, build, saVars, lrVars>>

\* one iteration of the outer loop of nb_fill_list
NbFillCell ==
    /\ nb_pc = "fill"
    /\ nb_ic < nb_cl.n
    /\ nb_adj' = nb_fill_cell(nb_adj, nb_coord, nb_radii, nb_cl, nb_ic, 1)
    /\ nb_ic' = nb_ic + 1
    /\ UNCHANGED <<nb_pc, nb_coord, nb_radii, nb_cl, build, saVars, lrVars>>

\* the end of nb_fill_list: cell_list_free and return adj
NbReturn ==
    /\ nb_pc = "fill"
    /\ nb_ic = nb_cl.n
    /\ nb_cl' = NoCellList
    /\ nb_pc' = "done"
    /\ UNCHANGED <<nb_coord, nb_radii, nb_adj, nb_ic, build, saVars, lrVars>>

NextNb == NbCellListNew \/ NbFillCell \/ NbReturn

SpecNb == InitNb /\ [][NextNb]_vars

(***************************************************************************)
(* Properties of the neighbour index                                       *)
(***************************************************************************)
Dist2(vi, vj) ==
    (vj[1] - vi[1]) * (vj[1] - vi[1]) + (vj[2] - vi[2]) * (vj[2] - vi[2])
    + (vj[3] - vi[3]) * (vj[3] - vi[3])

Close(i, j) == Dist2(nb_coord[i], nb_coord[j]) < (nb_radii[i] + nb_radii[j]) * (nb_radii[i] + nb_radii[j])

Occurrences(s, x) == Cardinality({k \in 1..Len(s) : s[k] = x})

NbAtoms == 1..Len(nb_coord)

\* C1: when freesasa_nb_new has returned, every pair of distinct atoms closer
\* than R_a + R_b has been emitted exactly once: b occurs exactly once in
\* nb[a] and a exactly once in nb[b].
C1_EmittedExactlyOnce ==
    nb_pc = "done" =>
        \A a \in NbAtoms : \A b \in NbAtoms :
            (a # b /\ Close(a, b)) =>
                /\ Occurrences(nb_adj.nb[a], b) = 1
                /\ Occurrences(nb_adj.nb[b], a) = 1

\* C2: when freesasa_nb_new has returned, the contact relation of the cell
\* list equals the brute-force all-pairs relation (strict squared-distance
\* test, as computed by sasa_get_contacts); it is symmetric and no atom is
\* its own neighbour.
C2_ContactEqualsBruteForce ==
    nb_pc = "done" =>
        LET brute == sasa_get_contacts(nb_coord, nb_radii)
        IN  /\ \A i \in NbAtoms : \A j \in NbAtoms :
                 i # j => /\ (freesasa_nb_contact(nb_adj, i, j) = 1 <=> Close(i, j))
                          /\ (freesasa_nb_contact(nb_adj, i, j) = 1
                                <=> \E k \in 1..Len(brute[i]) : brute[i][k] = j)
                          /\ freesasa_nb_contact(nb_adj, i, j) = freesasa_nb_contact(nb_adj, j, i)
            /\ \A i \in NbAtoms : freesasa_nb_contact(nb_adj, i, i) = 0

CellOf(i) == coord2cell_index(cell_list_bounds(2 * max_array(nb_radii), nb_coord), nb_coord[i])

\* C2 witness: a returned list with a contact pair whose atoms lie in two
\* different cells, a contact pair inside one cell, and a pair of atoms that
\* are not in contact
C2_Witness ==
    /\ nb_pc = "done"
    /\ \E i \in NbAtoms : \E j \in NbAtoms :
          i # j /\ Close(i, j) /\ CellOf(i) # CellOf(j)
          /\ freesasa_nb_contact(nb_adj, i, j) = 1
    /\ \E i \in NbAtoms : \E j \in NbAtoms :
          i # j /\ Close(i, j) /\ CellOf(i) = CellOf(j)
          /\ freesasa_nb_contact(nb_adj, i, j) = 1
    /\ \E i \in NbAtoms : \E j \in NbAtoms :
          i # j /\ ~ Close(i, j) /\ freesasa_nb_contact(nb_adj, i, j) = 0

CellXYZ(c, ci) == << ci % c.nx, (ci \div c.nx) % c.ny, ci \div (c.nx * c.ny) >>

Adjacent(c, ci, cj) ==
    \A ax \in 1..3 : Abs(CellXYZ(c, ci)[ax] - CellXYZ(c, cj)[ax]) <= 1

\* C10: after get_nb, of two distinct cells whose indices differ by at most
\* 1 on each axis exactly one holds the other in its forward-neighbour
\* list, and every cell lists itself exactly once.
C10_ForwardHalfShell ==
    nb_pc = "fill" =>
        \A ci \in 0..(nb_cl.n - 1) :
            /\ Occurrences(nb_cl.nb[ci], ci) = 1
            /\ \A cj \in 0..(nb_cl.n - 1) :
                 (ci # cj /\ Adjacent(nb_cl, ci, cj)) =>
                    Occurrences(nb_cl.nb[ci], cj) + Occurrences(nb_cl.nb[cj], ci) = 1

(***************************************************************************)
(* sasa_lr.c: sasa_sum_angles                                              *)
(***************************************************************************)

\* the loop "for (;;) { d = bj - bi; ... }": bj brought within PI of bi
NormaliseNoWrap(bi, bj) == bj
RECURSIVE Normalise(_, _)
Normalise(bi, bj) ==
    LET d == FSub(bj, bi)
    IN  IF FGt(d, PI) THEN Normalise(bi, bj - 2 * PI)
        ELSE IF FLt(d, 0 - PI) THEN Normalise(bi, bj + 2 * PI)
        ELSE bj

\* the joint interval of i and j: the new <<a[i], b[i]>> before b[i] is
\* brought back into [-PI, PI]
JoinFirstOnly(ai, bi, aj, bj) == << ai, bi >>
Join(ai, bi, aj, bj) ==
    LET inf_i == FSub(bi, ai)
        inf_j == FSub(bj, aj)
        sup_i == FAdd(bi, ai)
        sup_j == FAdd(bj, aj)
        inf == IF FLt(inf_i, inf_j) THEN inf_i ELSE inf_j
        sup == IF FGt(sup_i, sup_j) THEN sup_i ELSE sup_j
    IN  << FHalf(FSub(sup, inf)), FHalf(FAdd(inf, sup)) >>

\* "if (b[i] > PI) b[i] -= 2*PI; if (b[i] < -PI) b[i] += 2*PI;"
WrapCentre(b) ==
    LET b1 == IF FGt(b, PI) THEN b - 2 * PI ELSE b
    IN  IF FLt(b1, 0 - PI) THEN b1 + 2 * PI ELSE b1

\* the double loop of sasa_sum_angles from position (i, j) on; st holds the
\* arrays a, b, excluded and the counters n_exc, n_overlap; early is set by
\* "if (a[i] > PI) return 0"
RECURSIVE SumAnglesLoop(_, _, _)
SumAnglesLoop(st, i, j) ==
    LET n == Len(st.a)
    IN  IF i > n THEN st
        ELSE IF st.excluded[i] THEN SumAnglesLoop(st, i + 1, 1)
        ELSE IF j > n THEN
            (IF st.n_exc = n - 1 THEN st ELSE SumAnglesLoop(st, i + 1, 1))
        ELSE IF st.excluded[j] \/ i = j THEN SumAnglesLoop(st, i, j + 1)
        ELSE
            LET bi == st.b[i]
                ai == st.a[i]
                aj == st.a[j]
                bj == Normalise(bi, st.b[j])
                d  == FSub(bj, bi)
            IN  IF FGt(FAbs(d), FAdd(ai, aj)) THEN SumAnglesLoop(st, i, j + 1)
                ELSE
                    LET m == Join(ai, bi, aj, bj)
                        merged == [st EXCEPT !.n_overlap = @ + 1,
                                             !.a[i] = m[1], !.b[i] = m[2]]
                    IN  IF FGt(m[1], PI) THEN [merged EXCEPT !.early = TRUE]
                        ELSE
                            LET st2 == [merged EXCEPT !.b[i] = WrapCentre(m[2]),
                                                      !.a[j] = 0,
                                                      !.excluded[j] = TRUE,
                                                      !.n_exc = @ + 1]
                            IN  IF st2.n_exc = n - 1 THEN st2
                                ELSE SumAnglesLoop(st2, i, j + 1)

\* one execution of the double loop on the arguments a, b
SumAnglesPass(a, b) ==
    SumAnglesLoop([a |-> a, b |-> b, excluded |-> [i \in 1..Len(a) |-> FALSE],
                   n_exc |-> 0, n_overlap |-> 0, early |-> FALSE], 1, 1)

\* the indices that are not excluded, in increasing order
ActiveAll(st) == [i \in 1..Len(st.a) |-> i]
Active(st) == SelectSeq([i \in 1..Len(st.a) |-> i], LAMBDA i : ~ st.excluded[i])

\* a2 and b2: the intervals copied for the recursive call
CompactA(st) == [k \in 1..Len(Active(st)) |-> st.a[Active(st)[k]]]
CompactB(st) == [k \in 1..Len(Active(st)) |-> st.b[Active(st)[k]]]

RECURSIVE FSum2(_)
FSum2(a) == IF a = << >> THEN 0 ELSE FAdd(FMul(2, Head(a)), FSum2(Tail(a)))

\* "return 2*PI - buried_angle"
ExposedAngle(a) == FSub(2 * PI, FSum2(a))

\* "assert(a[i] > 0)" for every i
AssertPositive(a) == \A i \in 1..Len(a) : FGt(a[i], 0)

\* the value returned when an assertion fails in a build with assertions
AssertionFailed == NaN - 1

\* sasa_sum_angles(n_buried, a, b); nd: compiled with NDEBUG
RECURSIVE sasa_sum_angles(_, _, _)
sasa_sum_angles(a, b, nd) ==
    IF (~ nd) /\ ~ AssertPositive(a) THEN AssertionFailed
    ELSE LET st == SumAnglesPass(a, b)
         IN  IF st.early THEN 0
             ELSE IF st.n_overlap > 0
                  THEN sasa_sum_angles(CompactA(st), CompactB(st), nd)
                  ELSE ExposedAngle(st.a)

(***************************************************************************)
(* Specification SpecSum: sasa_sum_angles, one call (recursion level) per  *)
(* step, on every bounded list of intervals                                *)
(***************************************************************************)
\* the grid of the input angles: multiples of pi/3, and PI itself
AngleStep == PI \div 3
AlphaGrid == {k * AngleStep : k \in 1..3}
BetaGrid == {k * AngleStep : k \in (0 - 3)..3}

\* the 0.1 rad of the wrap-around scenario, on the model's grid (pi/24)
SeamEps == PI \div 24
SeamInputA == << PI \div 2, PI \div 2 >>
SeamInputB == << PI, SeamEps - PI >>

InitSum ==
    /\ sa_pc = "call"
    /\ \/ \E n \in 0..MaxIntervals :
            /\ sa_in_a \in [1..n -> AlphaGrid]
            /\ sa_in_b \in [1..n -> BetaGrid]
       \* lists that break the precondition a[i] > 0 of the entry assertion
       \/ \E n \in 1..MaxDegenerate :
            /\ sa_in_a \in [1..n -> {0} \cup AlphaGrid]
            /\ sa_in_b \in [1..n -> BetaGrid]
       \/ sa_in_a = SeamInputA /\ sa_in_b = SeamInputB
    /\ sa_a = sa_in_a
    /\ sa_b = sa_in_b
    /\ sa_depth = 0
    /\ sa_early = FALSE
    /\ sa_ret = 0
    /\ build = "any"
    /\ NbIdle
    /\ LrIdle

\* the entry assertion fails in a build with assertions: the process aborts
SumAnglesAbort ==
    /\ sa_pc = "call"
    /\ ~ AssertPositive(sa_a)
    /\ build \in {"any", "assert"}
    /\ build' = "assert"
    /\ sa_pc' = "aborted"
    /\ UNCHANGED <<sa_in_a, sa_in_b, sa_a, sa_b, sa_depth, sa_early, sa_ret, nbVars, lrVars>>

\* the body of one call, entered when the assertions hold or are compiled out
SumAnglesEnter ==
    /\ sa_pc = "call"
    /\ \/ AssertPositive(sa_a) /\ UNCHANGED build
       \/ (~ AssertPositive(sa_a)) /\ build \in {"any", "ndebug"} /\ build' = "ndebug"

\* a call that returns 0 from inside the loop
SumAnglesEarlyReturn ==
    /\ SumAnglesEnter
    /\ LET st == SumAnglesPass(sa_a, sa_b)
       IN  /\ st.early
           /\ sa_a' = st.a
           /\ sa_b' = st.b
    /\ sa_early' = TRUE
    /\ sa_ret' = 0
    /\ sa_pc' = "done"
    /\ UNCHANGED <<sa_in_a, sa_in_b, sa_depth, nbVars, lrVars>>

\* a call whose pass found an overlap: it calls itself on a2, b2
SumAnglesRecurse ==
    /\ SumAnglesEnter
    /\ LET st == SumAnglesPass(sa_a, sa_b)
       IN  /\ ~ st.early
           /\ st.n_overlap > 0
           /\ sa_a' = CompactA(st)
           /\ sa_b' = CompactB(st)
    /\ sa_depth' = sa_depth + 1
    /\ UNCHANGED <<sa_pc, sa_in_a, sa_in_b, sa_early, sa_ret, nbVars, lrVars>>

\* a call whose pass found no overlap: it returns the exposed angle
SumAnglesReturn ==
    /\ SumAnglesEnter
    /\ LET st == SumAnglesPass(sa_a, sa_b)
       IN  /\ ~ st.early
           /\ st.n_overlap = 0
    /\ sa_ret' = ExposedAngle(sa_a)
    /\ sa_pc' = "done"
    /\ UNCHANGED <<sa_in_a, sa_in_b, sa_a, sa_b, sa_depth, sa_early, nbVars, lrVars>>

NextSum == SumAnglesAbort \/ SumAnglesEarlyReturn \/ SumAnglesRecurse \/ SumAnglesReturn

SpecSum == InitSum /\ [][NextSum]_vars

(***************************************************************************)
(* Properties of sasa_sum_angles                                           *)
(***************************************************************************)
\* the unit cells [c, c+1] of the circle [0, 2*PI) covered by the arc
\* [b - a, b + a] taken modulo 2*PI
ArcCells(a, b) ==
    {c \in 0..(2 * PI - 1) :
        \E m \in (0 - 1)..1 : b - a + 2 * PI * m <= c /\ c + 1 <= b + a + 2 * PI * m}

\* the measure of the union of the arcs: all end points are integers
UnionMeasure(a, b) == Cardinality(UNION {ArcCells(a[k], b[k]) : k \in 1..Len(a)})

ValidIntervals(a, b) ==
    \A k \in 1..Len(a) : a[k] > 0 /\ a[k] <= PI /\ b[k] >= 0 - PI /\ b[k] <= PI

\* C3: for every list of intervals with 0 < alpha <= pi and beta in [-pi, pi],
\* in every order, sasa_sum_angles returns 2*pi minus the measure of the
\* union of the arcs modulo 2*pi: 2*pi for no interval, 2*pi - 2*alpha for
\* one interval repeated, 0 when the arcs cover the circle.
C3_ExposedIsComplementOfUnion ==
    (sa_pc = "done" /\ ValidIntervals(sa_in_a, sa_in_b)) =>
        /\ sa_ret = 2 * PI - UnionMeasure(sa_in_a, sa_in_b)
        /\ (Len(sa_in_a) = 0 => sa_ret = 2 * PI)
        /\ ((Len(sa_in_a) > 0 /\ \A k \in 1..Len(sa_in_a) :
                sa_in_a[k] = sa_in_a[1] /\ sa_in_b[k] = sa_in_b[1])
             => sa_ret = 2 * PI - 2 * sa_in_a[1])
        /\ (UnionMeasure(sa_in_a, sa_in_b) = 2 * PI => sa_ret = 0)

\* C3 witness: three different intervals, merged across the seam by a
\* recursive call, that leave a part of the circle exposed
C3_Witness ==
    /\ sa_pc = "done"
    /\ ValidIntervals(sa_in_a, sa_in_b)
    /\ Len(sa_in_a) = 3
    /\ sa_in_b[1] # sa_in_b[2] /\ sa_in_b[2] # sa_in_b[3] /\ sa_in_b[1] # sa_in_b[3]
    /\ \E k \in 1..3 : sa_in_b[k] + sa_in_a[k] > PI
    /\ sa_depth >= 1
    /\ sa_ret > 0 /\ sa_ret < 2 * PI - 2 * sa_in_a[1]

\* C9 as stated: on the wrap-around input the merged interval is wider than
\* the circle (half-width > pi) and the call returns 0 through the early
\* return.
C9_SeamEarlyReturn ==
    (sa_pc = "done" /\ sa_in_a = SeamInputA /\ sa_in_b = SeamInputB) =>
        (sa_early /\ sa_ret = 0)

\* C9 amended: on the wrap-around input (alpha = pi/2, beta = pi) and
\* (alpha = pi/2, beta = -pi + eps) the two intervals are merged across the
\* seam into one interval of half-width pi/2 + eps/2, which is not greater
\* than pi; the early return is not taken and the recursive call returns
\* 2*pi - (pi + eps) = pi - eps.
C9_SeamMergedNoEarlyReturn ==
    (sa_in_a = SeamInputA /\ sa_in_b = SeamInputB) =>
        /\ ~ sa_early
        /\ sa_depth <= 1
        /\ sa_depth = 1 =>
              /\ sa_a = << (PI + SeamEps) \div 2 >>
              /\ sa_a[1] <= PI
              /\ sa_b = << (SeamEps \div 2) - PI >>
        /\ sa_pc = "done" => (sa_depth = 1 /\ sa_ret = PI - SeamEps)

\* C9 witness: the call on the wrap-around input has returned
C9_Witness ==
    sa_pc = "done" /\ sa_in_a = SeamInputA /\ sa_in_b = SeamInputB /\ sa_depth = 1

(***************************************************************************)
(* sasa_lr.c: one slice                                                    *)
(*                                                                         *)
(* Lengths in a slice are carried as squares of doubled lengths, which are *)
(* integers: q = (2r)^2 for an in-slice radius r, D = (2d)^2 for an        *)
(* in-plane distance d.  Comparisons of sums of square roots are decided   *)
(* exactly on the squares.  acos and atan2 round to the angle grid of      *)
(* pi/8 (the model's counterpart of rounding to a double); acos keeps the  *)
(* values 0 and pi for the arguments 1 and -1 only.                        *)
(***************************************************************************)

\* 100 * cos((k + 1/2) * pi/8), k = 0..7: the bin boundaries of AcosGrid
CosThresholds == {98, 83, 56, 20, -20, -56, -83, -98}

\* 1000 * tan((k + 1/2) * pi/8), k = 0..3: the bin boundaries of AtanGrid
TanThresholds == {199, 668, 1497, 5027}

\* N / sqrt(Q) < t / 100, for Q > 0
ArgLess(N, Q, t) ==
    IF t > 0 THEN N <= 0 \/ (100 * N) * (100 * N) < t * t * Q
    ELSE N < 0 /\ (100 * N) * (100 * N) > t * t * Q

\* acos(N / sqrt(Q)) for Q > 0, on the angle grid
AcosGrid(N, Q) ==
    IF N > 0 /\ N * N >= Q THEN 0
    ELSE IF N < 0 /\ N * N >= Q THEN PI
    ELSE LET k == Cardinality({t \in CosThresholds : ArgLess(N, Q, t)})
         IN  IF k = 0 THEN 2
             ELSE IF k = 8 THEN PI - 2
             ELSE k * (PI \div 8)

\* atan2(y, x) on the angle grid; atan2(0, 0) = 0, atan2(0, x < 0) = pi
AtanGrid(y, x) ==
    LET k == Cardinality({t \in TanThresholds : 1000 * Abs(y) > t * Abs(x)})
        phi == k * (PI \div 8)
    IN  IF y >= 0 THEN (IF x >= 0 THEN phi ELSE PI - phi)
        ELSE (IF x >= 0 THEN 0 - phi ELSE phi - PI)

\* "d >= ri + rj" on the squares
Disjoint(D, qi, qj) ==
    LET s == D - qi - qj
    IN  s >= 0 /\ s * s >= 4 * qi * qj

\* "d + ri < rj" on the squares: circle i lies strictly inside circle j
Inside(D, qi, qj) ==
    LET t == qi + qj - D
    IN  qj > qi /\ t > 0 /\ t * t > 4 * qi * qj

\* alpha = acos((ri*ri + d*d - rj*rj) / (2.0*ri*d)); 0/0 and x/0 give NaN
ArcAlpha(D, qi, qj) ==
    IF D = 0 THEN NaN ELSE AcosGrid(qi + D - qj, 4 * qi * D)

\* one iteration of the loop over the neighbours of circle i in
\* sasa_exposed_arcs, for the neighbour j; acc holds a, b and
\* is_completely_buried
NeighbourStep(D, qi, qj, yij, xij, i, j, acc) ==
    IF Disjoint(D, qi, qj) THEN acc
    ELSE IF Inside(D, qi, qj) THEN [acc EXCEPT !.buried[i] = TRUE]
    ELSE IF Inside(D, qj, qi) THEN [acc EXCEPT !.buried[j] = TRUE]
    ELSE [acc EXCEPT !.a = Append(@, ArcAlpha(D, qi, qj)),
                     !.b = Append(@, AtanGrid(yij, xij))]

\* the loop over the neighbours of circle i, from the ni-th neighbour on;
\* it is left by break when circle i is found completely buried
RECURSIVE NeighbourLoop(_, _, _, _)
NeighbourLoop(sl, i, ni, acc) ==
    IF ni > Len(sl.nb[i]) \/ acc.buried[i] THEN acc
    ELSE NeighbourLoop(sl, i, ni + 1,
             NeighbourStep(4 * ((sl.x[sl.nb[i][ni]] - sl.x[i]) * (sl.x[sl.nb[i][ni]] - sl.x[i])
                                + (sl.y[sl.nb[i][ni]] - sl.y[i]) * (sl.y[sl.nb[i][ni]] - sl.y[i])),
                           sl.q[i], sl.q[sl.nb[i][ni]],
                           sl.y[sl.nb[i][ni]] - sl.y[i], sl.x[sl.nb[i][ni]] - sl.x[i],
                           i, sl.nb[i][ni], acc))

\* exposed_arc[i] = sasa_sum_angles(n_buried, a, b) unless circle i is
\* completely buried
ExposedArcOf(acc, i, nd) == IF acc.buried[i] THEN 0 ELSE sasa_sum_angles(acc.a, acc.b, nd)

\* the end of one iteration of the loop over the circles: st holds
\* exposed_arc, is_completely_buried and whether an assertion has failed
StoreArc(st, i, arc, buried) ==
    IF arc = AssertionFailed THEN [st EXCEPT !.ok = FALSE]
    ELSE [st EXCEPT !.exposed_arc[i] = arc, !.buried = buried]

\* one iteration of the loop over the circles of the slice
ExposedStep(sl, i, st, acc, nd) ==
    IF st.buried[i] THEN [st EXCEPT !.exposed_arc[i] = 0]
    ELSE StoreArc(st, i, ExposedArcOf(acc, i, nd), acc.buried)

\* the loop over the circles of the slice in sasa_exposed_arcs, from circle
\* i on
RECURSIVE ExposedLoop(_, _, _, _)
ExposedLoop(sl, i, st, nd) ==
    IF i > Len(sl.q) \/ ~ st.ok THEN st
    ELSE ExposedLoop(sl, i + 1,
             ExposedStep(sl, i, st,
                 NeighbourLoop(sl, i, 1, [a |-> << >>, b |-> << >>, buried |-> st.buried]),
                 nd),
             nd)

\* sasa_exposed_arcs: [ok, exposed_arc, buried]
sasa_exposed_arcs(sl, nd) ==
    ExposedLoop(sl, 1, [ok |-> TRUE,
                        exposed_arc |-> [i \in 1..Len(sl.q) |-> 0],
                        buried |-> [i \in 1..Len(sl.q) |-> FALSE]], nd)

\* |z_i - z|, doubled
SliceDist2(l, i, z2) == Abs(2 * l.xyz[i][3] - z2)

\* "d < ri"
InSlice(l, i, z2) == SliceDist2(l, i, z2) < 2 * l.radii[i]

\* idx: the atoms of the slice, in increasing order
SliceIdx(l, z2) == SelectSeq([i \in 1..l.n_atoms |-> i], LAMBDA i : InSlice(l, i, z2))

\* xdi: the position of atom i in idx
SliceXdi(l, z2, i) == Cardinality({k \in 1..i : InSlice(l, k, z2)})

\* delta/2 + (delta/2 < ri-d ? delta/2 : ri-d), doubled
SlabWeightUnclamped(l, i, z2) == 2 * l.delta
SlabWeight2(l, i, z2) ==
    LET rd == 2 * l.radii[i] - SliceDist2(l, i, z2)
    IN  l.delta + (IF l.delta < rd THEN l.delta ELSE rd)

\* the first part of sasa_add_slice_area: the circles x, y, r of the slice
\* (q = (2r)^2) and the neighbour lists restricted to the slice
SliceCircles(l, z2) ==
    LET idx == SliceIdx(l, z2)
    IN  [idx |-> idx,
         x |-> [k \in 1..Len(idx) |-> l.xyz[idx[k]][1]],
         y |-> [k \in 1..Len(idx) |-> l.xyz[idx[k]][2]],
         q |-> [k \in 1..Len(idx) |->
                  4 * l.radii[idx[k]] * l.radii[idx[k]]
                  - SliceDist2(l, idx[k], z2) * SliceDist2(l, idx[k], z2)],
         nb |-> [k \in 1..Len(idx) |->
                  LET kept == SelectSeq(l.nb[idx[k]], LAMBDA j2 : InSlice(l, j2, z2))
                  IN  [m \in 1..Len(kept) |-> SliceXdi(l, z2, kept[m])]]]

\* the last loop of sasa_add_slice_area: sasa[idx[i]] +=
\* exposed_arc[i]*r[i]*DR[i], which is exposed_arc[i] * ri * (slab weight):
\* r[i] cancels; the sum is carried doubled
AddSliceArea(z2, l, sasa, ex) ==
    [ok |-> ex.ok,
     exposed_arc |-> ex.exposed_arc,
     sasa |-> IF ex.ok
              THEN [i \in 1..l.n_atoms |->
                      IF InSlice(l, i, z2)
                      THEN FAdd(sasa[i], FMul(ex.exposed_arc[SliceXdi(l, z2, i)],
                                              l.radii[i] * SlabWeight2(l, i, z2)))
                      ELSE sasa[i]]
              ELSE sasa]

\* sasa_add_slice_area(z, lr) on the array sasa: [ok, sasa, exposed_arc]
sasa_add_slice_area(z2, l, sasa, nd) ==
    AddSliceArea(z2, l, sasa, sasa_exposed_arcs(SliceCircles(l, z2), nd))

(***************************************************************************)
(* SpecLR: sasalib_lee_richards, serial and threaded                       *)
(***************************************************************************)

MaxAtoms == 2
MaxXY == 1
MaxZ == 1
MaxAtomRadius == 1
MaxSoloRadius == 4
MaxProbe == 1
MaxDelta == 4
MaxThreads == 3
MaxIter == 2

\* ceil(p/q) for q # 0
CeilQ(p, q) == IF q > 0 THEN CeilDiv(p, q) ELSE CeilDiv(0 - p, 0 - q)

\* the set-up of sasalib_lee_richards: radii, slice range and contacts,
\* gathered in the struct lr (min_z and max_z doubled)
LrSetupOwnRadii(xyz, atom_radii, probe, delta) ==
    LET radii == [i \in 1..Len(xyz) |-> atom_radii[i] + probe]
    IN  [n_atoms |-> Len(xyz), radii |-> radii, xyz |-> xyz,
         nb |-> sasa_get_contacts(xyz, radii), delta |-> delta,
         min_z2 |-> SeqMin([i \in 1..Len(xyz) |-> 2 * xyz[i][3] - 2 * radii[i]]) + delta,
         max_z2 |-> SeqMax([i \in 1..Len(xyz) |-> 2 * xyz[i][3] + 2 * radii[i]])]
LrSetup(xyz, atom_radii, probe, delta) ==
    LET radii == [i \in 1..Len(xyz) |-> atom_radii[i] + probe]
        max_r == Max2(0, SeqMax(radii))
        zs == [i \in 1..Len(xyz) |-> xyz[i][3]]
    IN  [n_atoms |-> Len(xyz), radii |-> radii, xyz |-> xyz,
         nb |-> sasa_get_contacts(xyz, radii), delta |-> delta,
         min_z2 |-> 2 * SeqMin(zs) - 2 * max_r + delta,
         max_z2 |-> 2 * SeqMax(zs) + 2 * max_r]

\* n_slices = (int)ceil((max_z-min_z)/delta): the conversion of an infinity
\* or a NaN (delta = 0) to int is undefined
n_slices_values(l) ==
    IF l.delta = 0 THEN {0 - 1, 0, 1}
    ELSE {CeilQ(l.max_z2 - l.min_z2, 2 * l.delta)}

\* n_perthread = n_slices/n_threads
n_perthread_of(n_slices, n_threads) ==
    IF n_slices >= 0 THEN TruncDiv(n_slices, n_threads)
    ELSE 0 - TruncDiv(0 - n_slices, n_threads)

\* lrt[t].min_z, for the zero-based thread number t
lrt_min_z(l, t, n_perthread) == l.min_z2 + 2 * t * n_perthread * l.delta

\* lrt[t].max_z
lrt_max_z_no_remainder(l, t, n_threads, n_perthread) ==
    lrt_min_z(l, t, n_perthread) + 2 * n_perthread * l.delta
lrt_max_z(l, t, n_threads, n_perthread) ==
    IF t < n_threads - 1
    THEN lrt_min_z(l, t, n_perthread) + 2 * n_perthread * l.delta
    ELSE l.max_z2

Zeros(n) == [i \in 1..n |-> 0]

\* a loop over slices may take its next iteration: the model stops a loop
\* that cannot end (delta <= 0) after MaxIter iterations
LoopBudget(iter) == lr_delta > 0 \/ iter < MaxIter

LrPoints == {<<x, y, z>> : x \in 0..MaxXY, y \in 0..MaxXY, z \in 0..MaxZ}

InitLr ==
    /\ lr_pc = "call"
    /\ \/ lr_xyz = << >> /\ lr_atom_radii = << >>
       \/ /\ lr_xyz = << <<0, 0, 0>> >>
          /\ lr_atom_radii \in [1..1 -> 0..MaxSoloRadius]
       \/ \E n \in 2..MaxAtoms :
            /\ lr_xyz \in [1..n -> LrPoints]
            /\ lr_xyz[1] = <<0, 0, 0>>
            /\ lr_atom_radii \in [1..n -> 0..MaxAtomRadius]
    /\ lr_probe \in 0..MaxProbe
    /\ lr_delta \in (0 - 1)..MaxDelta
    /\ lr_n_threads \in 1..MaxThreads
    \* the caller's array holds anything before the call
    /\ \E g \in {0, 7} : lr_sasa = [i \in 1..Len(lr_xyz) |-> g]
    /\ lr = [n_atoms |-> 0]
    /\ lr_status = "SUCCESS"
    /\ lr_z2 = 0
    /\ lr_exposed = << >>
    /\ lr_loc = [n_slices |-> 0, n_perthread |-> 0]
    /\ lr_t = 0
    /\ lr_thr = << >>
    /\ lr_slices = {}
    /\ lr_iter = 0
    \* assert is compiled in, or compiled out by NDEBUG
    /\ build \in {"assert", "ndebug"}
    /\ NbIdle
    /\ SaIdle

lrInputs == <<lr_xyz, lr_atom_radii, lr_probe, lr_delta, lr_n_threads>>

\* n_atoms == 0: warn and return
LrEmpty ==
    /\ lr_pc = "call"
    /\ Len(lr_xyz) = 0
    /\ lr_status' = "WARNING"
    /\ lr_pc' = "done"
    /\ UNCHANGED <<lrInputs, lr_sasa, lr, lr_z2, lr_exposed, lr_loc, lr_t, lr_thr,
                   lr_slices, lr_iter, build, nbVars, saVars>>

\* set-up, then the single-threaded branch: n_threads == 1, or n_threads > 1
\* in a build without pthreads, which warns and proceeds single-threaded
LrStartSerial ==
    /\ lr_pc = "call"
    /\ Len(lr_xyz) > 0
    /\ lr' = LrSetup(lr_xyz, lr_atom_radii, lr_probe, lr_delta)
    /\ lr_sasa' = Zeros(Len(lr_xyz))
    /\ lr_status' = IF lr_n_threads > 1 THEN "WARNING" ELSE "SUCCESS"
    /\ lr_z2' = lr'.min_z2
    /\ lr_pc' = "serial"
    /\ UNCHANGED <<lrInputs, lr_exposed, lr_loc, lr_t, lr_thr, lr_slices, lr_iter,
                   build, nbVars, saVars>>

\* set-up, then the entry of sasa_lr_do_threads up to its first loop
LrStartThreads ==
    /\ lr_pc = "call"
    /\ Len(lr_xyz) > 0
    /\ lr_n_threads > 1
    /\ lr' = LrSetup(lr_xyz, lr_atom_radii, lr_probe, lr_delta)
    /\ lr_sasa' = Zeros(Len(lr_xyz))
    /\ \E ns \in n_slices_values(lr') :
          lr_loc' = [n_slices |-> ns, n_perthread |-> n_perthread_of(ns, lr_n_threads)]
    /\ lr_t' = 0
    /\ lr_pc' = "create"
    /\ UNCHANGED <<lrInputs, lr_status, lr_z2, lr_exposed, lr_thr, lr_slices, lr_iter,
                   build, nbVars, saVars>>

\* the slice loops run sasa_add_slice_area with assertions unless NDEBUG
SliceArea(z2, sasa) == sasa_add_slice_area(z2, lr, sasa, build = "ndebug")

\* one iteration of the serial loop: sasa_add_slice_area(z, lr)
SerialSliceDone(res) ==
    /\ res.ok
    /\ lr_sasa' = res.sasa
    /\ lr_exposed' = res.exposed_arc
LrSerialSlice ==
    /\ lr_pc = "serial"
    /\ lr_z2 < lr.max_z2
    /\ LoopBudget(lr_iter)
    /\ SerialSliceDone(SliceArea(lr_z2, lr_sasa))
    /\ lr_slices' = lr_slices \cup {<<0, lr_z2>>}
    /\ lr_z2' = lr_z2 + 2 * lr.delta
    /\ lr_iter' = lr_iter + 1
    /\ UNCHANGED <<lrInputs, lr, lr_status, lr_pc, lr_loc, lr_t, lr_thr, build,
                   nbVars, saVars>>

\* an assertion of sasa_sum_angles fails in a slice of the serial loop
LrSerialAbort ==
    /\ lr_pc = "serial"
    /\ lr_z2 < lr.max_z2
    /\ LoopBudget(lr_iter)
    /\ ~ SliceArea(lr_z2, lr_sasa).ok
    /\ lr_pc' = "aborted"
    /\ UNCHANGED <<lrInputs, lr_sasa, lr, lr_status, lr_z2, lr_exposed, lr_loc, lr_t,
                   lr_thr, lr_slices, lr_iter, build, nbVars, saVars>>

\* the serial loop is over: free the contacts and return
LrSerialReturn ==
    /\ lr_pc = "serial"
    /\ ~ (lr_z2 < lr.max_z2)
    /\ lr_pc' = "done"
    /\ UNCHANGED <<lrInputs, lr_sasa, lr, lr_status, lr_z2, lr_exposed, lr_loc, lr_t,
                   lr_thr, lr_slices, lr_iter, build, nbVars, saVars>>

\* one iteration of the first loop of sasa_lr_do_threads: a zeroed t_sasa[t],
\* lrt[t], and a created thread
LrCreate ==
    /\ lr_pc = "create"
    /\ lr_t < lr_n_threads
    /\ lr_thr' = Append(lr_thr,
          [st |-> "run",
           min_z2 |-> lrt_min_z(lr, lr_t, lr_loc.n_perthread),
           max_z2 |-> lrt_max_z(lr, lr_t, lr_n_threads, lr_loc.n_perthread),
           z2 |-> lrt_min_z(lr, lr_t, lr_loc.n_perthread),
           sasa |-> Zeros(lr.n_atoms),
           iter |-> 0])
    /\ lr_t' = lr_t + 1
    /\ lr_pc' = IF lr_t + 1 = lr_n_threads THEN "join" ELSE "create"
    /\ UNCHANGED <<lrInputs, lr_sasa, lr, lr_status, lr_z2, lr_exposed, lr_loc,
                   lr_slices, lr_iter, build, nbVars, saVars>>

\* pthread_create fails: perror and exit(EXIT_FAILURE)
LrCreateFail ==
    /\ lr_pc = "create"
    /\ lr_t < lr_n_threads
    /\ lr_pc' = "exit"
    /\ UNCHANGED <<lrInputs, lr_sasa, lr, lr_status, lr_z2, lr_exposed, lr_loc, lr_t,
                   lr_thr, lr_slices, lr_iter, build, nbVars, saVars>>

\* the process is alive and thread t is inside the loop of sasa_lr_thread
WorkerInLoop(t) ==
    /\ lr_pc \in {"create", "join"}
    /\ t \in 1..Len(lr_thr)
    /\ lr_thr[t].st = "run"
    /\ lr_thr[t].z2 < lr_thr[t].max_z2
    /\ LoopBudget(lr_thr[t].iter)

\* one iteration of the loop of sasa_lr_thread in thread t
WorkerSliceDone(t, res) ==
    /\ res.ok
    /\ lr_thr' = [lr_thr EXCEPT ![t].sasa = res.sasa,
                                ![t].z2 = @ + 2 * lr.delta,
                                ![t].iter = @ + 1]
    /\ lr_exposed' = res.exposed_arc
WorkerSlice(t) ==
    /\ WorkerInLoop(t)
    /\ WorkerSliceDone(t, SliceArea(lr_thr[t].z2, lr_thr[t].sasa))
    /\ lr_slices' = lr_slices \cup {<<t, lr_thr[t].z2>>}
    /\ lr_iter' = lr_iter + 1
    /\ UNCHANGED <<lrInputs, lr_sasa, lr, lr_status, lr_pc, lr_z2, lr_loc, lr_t,
                   build, nbVars, saVars>>

\* an assertion of sasa_sum_angles fails in thread t: the process aborts
WorkerAbort(t) ==
    /\ WorkerInLoop(t)
    /\ ~ SliceArea(lr_thr[t].z2, lr_thr[t].sasa).ok
    /\ lr_pc' = "aborted"
    /\ UNCHANGED <<lrInputs, lr_sasa, lr, lr_status, lr_z2, lr_exposed, lr_loc, lr_t,
                   lr_thr, lr_slices, lr_iter, build, nbVars, saVars>>

\* the loop of thread t is over: pthread_exit
WorkerExit(t) ==
    /\ lr_pc \in {"create", "join"}
    /\ t \in 1..Len(lr_thr)
    /\ lr_thr[t].st = "run"
    /\ ~ (lr_thr[t].z2 < lr_thr[t].max_z2)
    /\ lr_thr' = [lr_thr EXCEPT ![t].st = "exited"]
    /\ UNCHANGED <<lrInputs, lr_sasa, lr, lr_status, lr_pc, lr_z2, lr_exposed, lr_loc,
                   lr_t, lr_slices, lr_iter, build, nbVars, saVars>>

\* the second loop of sasa_lr_do_threads: pthread_join returns once every
\* thread has exited
LrJoinNoWait ==
    /\ lr_pc = "join"
    /\ lr_pc' = "reduce"
    /\ UNCHANGED <<lrInputs, lr_sasa, lr, lr_status, lr_z2, lr_exposed, lr_loc, lr_t,
                   lr_thr, lr_slices, lr_iter, build, nbVars, saVars>>
LrJoin ==
    /\ lr_pc = "join"
    /\ \A t \in 1..Len(lr_thr) : lr_thr[t].st = "exited"
    /\ lr_pc' = "reduce"
    /\ UNCHANGED <<lrInputs, lr_sasa, lr, lr_status, lr_z2, lr_exposed, lr_loc, lr_t,
                   lr_thr, lr_slices, lr_iter, build, nbVars, saVars>>

\* lr.sasa[i] += t_sasa[t][i] over the threads t, from thread t on
RECURSIVE Reduce(_, _, _)
Reduce(sasa, thr, t) ==
    IF t > Len(thr) THEN sasa
    ELSE Reduce([i \in 1..Len(sasa) |-> FAdd(sasa[i], thr[t].sasa[i])], thr, t + 1)

\* the third loop of sasa_lr_do_threads, and the return of
\* sasalib_lee_richards (n_threads is not 1: the serial loop is skipped)
LrReduce ==
    /\ lr_pc = "reduce"
    /\ lr_sasa' = Reduce(lr_sasa, lr_thr, 1)
    /\ lr_pc' = "done"
    /\ UNCHANGED <<lrInputs, lr, lr_status, lr_z2, lr_exposed, lr_loc, lr_t, lr_thr,
                   lr_slices, lr_iter, build, nbVars, saVars>>

NextLr ==
    \/ LrEmpty
    \/ LrStartSerial
    \/ LrStartThreads
    \/ LrSerialSlice
    \/ LrSerialAbort
    \/ LrSerialReturn
    \/ LrCreate
    \/ LrCreateFail
    \/ \E t \in 1..lr_n_threads : WorkerSlice(t)
    \/ \E t \in 1..lr_n_threads : WorkerAbort(t)
    \/ \E t \in 1..lr_n_threads : WorkerExit(t)
    \/ LrJoin
    \/ LrReduce

SpecLR == InitLr /\ [][NextLr]_vars

(***************************************************************************)
(* Properties of the integrator                                            *)
(***************************************************************************)

\* the slices of the serial loop: z = min_z + k*delta < max_z, for delta > 0
SerialSlices(l) ==
    {z2 \in l.min_z2..(l.max_z2 - 1) : (z2 - l.min_z2) % (2 * l.delta) = 0}

\* the array sasa after the serial loop from slice z2 on
RECURSIVE SerialLoop(_, _, _, _)
SerialLoop(z2, l, sasa, nd) ==
    IF ~ (z2 < l.max_z2) THEN sasa
    ELSE SerialLoop(z2 + 2 * l.delta, l, sasa_add_slice_area(z2, l, sasa, nd).sasa, nd)

\* the contact radius of atom i
ContactRadius(i) == lr_atom_radii[i] + lr_probe

\* the input is two atoms with the same centre and the same contact radius
Coincident ==
    /\ Len(lr_xyz) = 2
    /\ lr_xyz[1] = lr_xyz[2]
    /\ lr_atom_radii[1] = lr_atom_radii[2]
    /\ ContactRadius(1) > 0

\* C4: for valid input (N >= 1, radii >= 0, delta > 0) every exposed arc
\* stored by sasa_exposed_arcs lies in [0, 2*pi], and every sasa[i] is a
\* number >= 0 when sasalib_lee_richards returns.
C4_ArcsAndAreasNonNegative ==
    (Len(lr_xyz) >= 1 /\ lr_delta > 0) =>
        /\ \A i \in DOMAIN lr_exposed :
              (~ IsNaN(lr_exposed[i])) /\ lr_exposed[i] >= 0 /\ lr_exposed[i] <= 2 * PI
        /\ lr_pc = "done" =>
              \A i \in DOMAIN lr_sasa : (~ IsNaN(lr_sasa[i])) /\ lr_sasa[i] >= 0

\* C5: with T > 1 threads and delta > 0, no slice outside the serial
\* sequence is integrated and no slice is integrated by two workers; when
\* the call returns every serial slice has been integrated by exactly one
\* worker and the reduced sasa equals the result of the serial loop.
C5_ThreadsPartitionSlices ==
    (lr_thr # << >> /\ lr_delta > 0) =>
        /\ \A p \in lr_slices :
              /\ p[2] \in SerialSlices(lr)
              /\ \A q \in lr_slices : q[2] = p[2] => q = p
        /\ lr_pc = "done" =>
              /\ \A z2 \in SerialSlices(lr) : \E t \in 1..Len(lr_thr) : <<t, z2>> \in lr_slices
              /\ lr_sasa = SerialLoop(lr.min_z2, lr, Zeros(lr.n_atoms), build = "ndebug")

\* two atoms in contact, three workers have returned, the slice count is not a multiple of the
\* thread count, two different workers integrated slices and some area is
\* positive
C5_Witness ==
    /\ lr_pc = "done"
    /\ lr_delta > 0
    /\ Len(lr_thr) = 3
    /\ Len(lr_xyz) = 2
    /\ lr.nb[1] # << >>
    /\ lr_loc.n_slices % 3 # 0
    /\ lr_loc.n_perthread >= 1
    /\ \E p, q \in lr_slices : p[1] # q[1]
    /\ \E i \in DOMAIN lr_sasa : lr_sasa[i] > 0

\* C6: two atoms with identical centres and identical contact radius R > 0:
\* the call does not abort on an assertion, no arc is undefined, and it
\* returns sasa[0] = sasa[1] with sasa[0] + sasa[1] <= 4*pi*R^2 (the model
\* carries areas doubled).
C6_CoincidentSpheresComplete ==
    (Coincident /\ lr_delta > 0) =>
        /\ lr_pc # "aborted"
        /\ \A i \in DOMAIN lr_exposed : ~ IsNaN(lr_exposed[i])
        /\ lr_pc = "done" =>
              /\ ~ IsNaN(lr_sasa[1])
              /\ ~ IsNaN(lr_sasa[2])
              /\ lr_sasa[1] = lr_sasa[2]
              /\ lr_sasa[1] + lr_sasa[2] <= 8 * PI * ContactRadius(1) * ContactRadius(1)

\* C7: a call on non-empty coordinates with delta <= 0 that returns, returns
\* WARNING with every sasa[i] = 0, or FAILURE.
C7_NonPositiveDeltaRejected ==
    (lr_pc = "done" /\ Len(lr_xyz) >= 1 /\ lr_delta <= 0) =>
        \/ lr_status = "WARNING" /\ \A i \in DOMAIN lr_sasa : lr_sasa[i] = 0
        \/ lr_status = "FAILURE"

\* C8: one atom of contact radius R > 0, delta > 0: when the call returns,
\* sasa[0] = 2*pi*R * (sum of the slab weights) with
\* 2R - delta <= sum <= 2R (the model carries the weights doubled).
C8_IsolatedAtomSlabWeights ==
    (lr_pc = "done" /\ Len(lr_xyz) = 1 /\ ContactRadius(1) > 0 /\ lr_delta > 0) =>
        /\ lr_sasa[1] >= 2 * PI * ContactRadius(1) * (4 * ContactRadius(1) - 2 * lr_delta)
        /\ lr_sasa[1] <= 2 * PI * ContactRadius(1) * 4 * ContactRadius(1)

\* one atom, at least two slices, the slab of the last slice falls short of
\* the top of the sphere: the sum of the weights is below 2R
C8_Witness ==
    /\ lr_pc = "done"
    /\ Len(lr_xyz) = 1
    /\ ContactRadius(1) > 0
    /\ lr_delta > 0
    /\ Cardinality(lr_slices) >= 2
    /\ lr_sasa[1] < 2 * PI * ContactRadius(1) * 4 * ContactRadius(1)
    /\ lr_sasa[1] > 0

\* the half-widths alpha that sasa_exposed_arcs appends to a, for the
\* circles of the slice from circle i on
AlphasOf(acc) == {acc.a[k] : k \in 1..Len(acc.a)}
RECURSIVE AppendedAlphas(_, _, _, _)
AppendedAlphas(sl, i, acc, out) ==
    IF i > Len(sl.q) THEN out \cup AlphasOf(acc)
    ELSE AppendedAlphas(sl, i + 1,
             IF acc.buried[i] THEN [acc EXCEPT !.a = << >>]
             ELSE NeighbourLoop(sl, i, 1, [a |-> << >>, b |-> << >>, buried |-> acc.buried]),
             out \cup AlphasOf(acc))

\* the slices that a slice loop is about to integrate
SlicesAtHand ==
    (IF lr_pc = "serial" /\ lr_z2 < lr.max_z2 THEN {lr_z2} ELSE {})
    \cup (IF lr_pc \in {"create", "join"}
          THEN {lr_thr[t].z2 : t \in {u \in 1..Len(lr_thr) :
                                         lr_thr[u].st = "run" /\ lr_thr[u].z2 < lr_thr[u].max_z2}}
          ELSE {})

AlphasAtHand ==
    UNION {AppendedAlphas(SliceCircles(lr, z2), 1,
                          [a |-> << >>, b |-> << >>,
                           buried |-> [i \in 1..Len(SliceIdx(lr, z2)) |-> FALSE]], {})
           : z2 \in SlicesAtHand}

\* C11: for delta > 0, every half-width alpha that sasa_exposed_arcs appends
\* for a pair passing its three guards is strictly positive.  The undefined
\* alpha of two coincident circles (C6) is set aside here: the statement is
\* about the alphas that are numbers.
C11_AlphaStrictlyPositive ==
    lr_delta > 0 => \A alpha \in AlphasAtHand : IsNaN(alpha) \/ alpha > 0

\* the serial loop has visited exactly the first lr_iter slices of
\* zmin, zmin + delta, ..., each below zmax, and has returned only when the
\* next one is not below zmax (zmin and zmax doubled)
VisitedFrom(zmin2, zmax2) ==
    /\ lr_slices = {<<0, zmin2 + 2 * k * lr_delta>> : k \in 0..(lr_iter - 1)}
    /\ \A p \in lr_slices : p[2] < zmax2
    /\ lr_pc = "done" => ~ (zmin2 + 2 * lr_iter * lr_delta < zmax2)

\* the call is in, or has returned from, the serial slice loop
InSerialLoop ==
    /\ Len(lr_xyz) >= 1
    /\ lr_thr = << >>
    /\ lr_pc \in {"serial", "done"}

ContactRadii == {ContactRadius(i) : i \in 1..Len(lr_xyz)}
CentresZ == {lr_xyz[i][3] : i \in 1..Len(lr_xyz)}
SetMin(S) == CHOOSE m \in S : \A x \in S : m <= x
SetMax(S) == CHOOSE m \in S : \A x \in S : m >= x

\* C12 as stated: the slice loop visits z_min, z_min + delta, ... while
\* z < z_max, with z_min = min over i of (z_i - R_i) + delta/2 and
\* z_max = max over i of (z_i + R_i), R_i atom i's own contact radius
\* (stated here for delta > 0).
C12_SliceRangeFromOwnRadii ==
    (InSerialLoop /\ lr_delta > 0) =>
        VisitedFrom(
            SetMin({2 * lr_xyz[i][3] - 2 * ContactRadius(i) : i \in 1..Len(lr_xyz)}) + lr_delta,
            SetMax({2 * lr_xyz[i][3] + 2 * ContactRadius(i) : i \in 1..Len(lr_xyz)}))

\* C12 as amended: the slice loop visits z_min, z_min + delta, ... while
\* z < z_max, with z_min = (min over i of z_i) - (max over i of R_i) + delta/2
\* and z_max = (max over i of z_i) + (max over i of R_i).
C12_SliceRangeFromLargestRadius ==
    InSerialLoop =>
        VisitedFrom(2 * SetMin(CentresZ) - 2 * SetMax(ContactRadii) + lr_delta,
                    2 * SetMax(CentresZ) + 2 * SetMax(ContactRadii))

\* a returned serial call on two atoms of different radii at different
\* heights, whose range is wider than the one of the atoms' own radii, with
\* several slices and a slice in which no atom lies
C12_Witness ==
    /\ lr_pc = "done"
    /\ lr_thr = << >>
    /\ Len(lr_xyz) = 2
    /\ lr_delta > 0
    /\ ContactRadius(1) # ContactRadius(2)
    /\ lr_xyz[1][3] # lr_xyz[2][3]
    /\ 2 * SetMax(CentresZ) + 2 * SetMax(ContactRadii)
         > SetMax({2 * lr_xyz[i][3] + 2 * ContactRadius(i) : i \in 1..Len(lr_xyz)})
    /\ Cardinality(lr_slices) >= 3
    /\ \E i \in 1..2 : lr_sasa[i] > 0

\* C13: in every step of every interleaving, the caller's sasa is not
\* written between the first pthread_create and the last pthread_join; a
\* buffer t_sasa[t] starts zeroed and changes only in a step of worker t
\* itself, which changes no other worker's buffer; and the reduction runs
\* only when every one of the n_threads workers has terminated.
C13_ThreadBuffersPrivate ==
    [][/\ lr_pc \in {"create", "join"} => lr_sasa' = lr_sasa
       /\ Len(lr_thr') > Len(lr_thr) =>
             /\ lr_thr'[Len(lr_thr')].sasa = Zeros(lr.n_atoms)
             /\ \A u \in 1..Len(lr_thr) : lr_thr'[u] = lr_thr[u]
       /\ \A t \in 1..Len(lr_thr) :
             lr_thr'[t].sasa # lr_thr[t].sasa =>
                /\ lr_thr[t].st = "run"
                /\ lr_thr'[t].iter = lr_thr[t].iter + 1
                /\ \A u \in 1..Len(lr_thr) : u # t => lr_thr'[u] = lr_thr[u]
       /\ lr_pc = "reduce" =>
             /\ Len(lr_thr) = lr_n_threads
             /\ \A t \in 1..Len(lr_thr) : lr_thr[t].st = "exited"
             /\ lr_thr' = lr_thr
      ]_vars

\* the parallel region with two workers that have written areas to their
\* own buffers, a worker still running, and the caller's sasa still zero
C13_Witness ==
    /\ lr_pc \in {"create", "join"}
    /\ lr_delta > 0
    /\ \E t, u \in 1..Len(lr_thr) :
          /\ t # u
          /\ \E i \in 1..lr.n_atoms : lr_thr[t].sasa[i] > 0
          /\ \E i \in 1..lr.n_atoms : lr_thr[u].sasa[i] > 0
          /\ lr_thr[t].sasa # lr_thr[u].sasa
    /\ \E v \in 1..Len(lr_thr) : lr_thr[v].st = "run" /\ lr_thr[v].z2 < lr_thr[v].max_z2
    /\ lr_sasa = Zeros(lr.n_atoms)

(***************************************************************************)
(* Termination of sasa_sum_angles                                          *)
(***************************************************************************)

\* the number of iterations of the normalisation loop on bi, bj that change
\* bj, counted up to fuel + 1
RECURSIVE NormaliseIterations(_, _, _)
NormaliseIterations(bi, bj, fuel) ==
    IF fuel = 0 THEN 1
    ELSE IF FGt(FSub(bj, bi), PI) THEN 1 + NormaliseIterations(bi, bj - 2 * PI, fuel - 1)
    ELSE IF FLt(FSub(bj, bi), 0 - PI) THEN 1 + NormaliseIterations(bi, bj + 2 * PI, fuel - 1)
    ELSE 0

\* C14: sasa_sum_angles terminates: a call recurses only after a pass that
\* found an overlap and did not return 0, the recursive call receives
\* strictly fewer intervals, the depth never exceeds the number n of input
\* intervals, the normalisation loop on any two intervals of a call exits
\* after at most one change of bj.  With the depth bounded by n and every
\* pass a finite double loop, every call ends.
C14_SumAnglesTerminates ==
    /\ [][sa_depth' # sa_depth =>
             /\ sa_depth' = sa_depth + 1
             /\ SumAnglesPass(sa_a, sa_b).n_overlap > 0
             /\ ~ SumAnglesPass(sa_a, sa_b).early
             /\ Len(sa_a') < Len(sa_a)]_vars
    /\ [](/\ sa_depth + Len(sa_a) <= Len(sa_in_a)
          /\ \A i, j \in 1..Len(sa_b) : NormaliseIterations(sa_b[i], sa_b[j], 3) <= 1
          /\ sa_depth <= Len(sa_in_a))

\* a call on three intervals that has recursed, on fewer intervals, and has
\* returned; two of its input intervals needed a change of bj
C14_Witness ==
    /\ sa_pc = "done"
    /\ Len(sa_in_a) = 3
    /\ sa_depth = 1
    /\ Len(sa_a) < 3
    /\ ~ sa_early
    /\ \E i, j \in 1..3 : NormaliseIterations(sa_in_b[i], sa_in_b[j], 3) = 1

=============================================================================
